---- MODULE Spec2Model ----
(***************************************************************************)
(* Model of the DMA layer of stm32l4x6_hal: the DMA block split into its   *)
(* channels, one channel followed in full (its registers, its flags and    *)
(* the transfer engine that drives it), and the two wrappers that own a    *)
(* channel: the CircBuffer built by Rx::circ_read and the Transfer built   *)
(* by Rx::read_exact and Tx::write_all (src/src/dma.rs,                    *)
(* src/src/serial/mod.rs).                                                 *)
(*                                                                         *)
(* The CPU side (the methods of the wrappers) and the transfer engine are  *)
(* the two processes.  Every method is one action; the engine moves one    *)
(* element per step.  Each method reads the status register or the count   *)
(* register exactly once, and the action is taken at that read: the       *)
(* engine runs before and after a method, not inside it.  Transfer::wait   *)
(* blocks on the engine, so it is a sequence of steps (its polling loop    *)
(* and each statement after it) with the engine running in between.        *)
(***************************************************************************)
EXTENDS Integers, Sequences

\* Largest length of one half of the circular buffer that is explored.
MaxHalfCap == 3

\* Largest length of the buffer of a one-shot transfer that is explored.
MaxLen == 2

\* Iterations of wait()'s polling loop that are told apart.
MaxSpins == 2

\* The count register holds 16 bits: `as u16` keeps the length modulo 2^16.
U16 == 65536

\* The channels of one DMA block (C1..C7 of the dma! invocation).
NumChannels == 7

\* USART2 receives through dma1::C6 and transmits through dma1::C7.
RxChan == 6
TxChan == 7

Channels == 1..NumChannels

\* The buffer lengths of one-shot transfers that are explored: the small ones,
\* and the first ones that do not fit the 16-bit count register.
Lens == (1..MaxLen) \cup {U16 + k : k \in 0..(MaxLen - 1)}

VARIABLES
    holders,          \* who holds the handle of the followed channel:
                      \* "caller", "circ" (a CircBuffer), "transfer" (a Transfer)
    handles,          \* per channel, the handles split() has returned
    chan_id,          \* the channel that is followed: RxChan or TxChan
    ahb_dmaen,        \* the block's clock gate (AHB1ENR.DMAxEN)
    others_en,        \* the other channels of the block whose CCR.EN is set
    peer_tcif,        \* ISR.TCIF of the USART's channel of the other direction
    teif,             \* ISR.TEIFx
    half_capacity,    \* length of one element of the [BUFFER; 2] array
    en,               \* CCR.EN
    circ,             \* CCR.CIRC
    dir,              \* CCR.DIR
    cndtr,            \* CNDTR: elements still to move in the current lap
    reload,           \* the count the engine reloads in circular mode
    htif,             \* ISR.HTIFx
    tcif,             \* ISR.TCIFx
    readable_half,    \* CircBuffer.readable_half
    consumed_offset,  \* CircBuffer.consumed_offset
    mode,             \* Transfer's MODE tag: "R", "W", or "none"
    buf_len,          \* length of the Transfer's buffer
    moved,            \* elements the engine moved since the Transfer was last armed
    pc,               \* where the CPU is: "run", or a statement of wait()
    spins,            \* iterations of wait()'s polling loop that found no flag
    en_prev,          \* CCR.EN as the last terminate() call found it
    op,               \* the step taken last
    ret,              \* what the last method call returned
    f_res,            \* what the caller's closure reported in the last call
    exposed,          \* the half and the bounds of the slice handed out
    quiet_calls,      \* readable_half() calls since a flag was set or another method ran
    halves_done,      \* halves the engine completed since the last readable_half()/peek()
    written,          \* the halves the engine completed since circ_read
    cpar,             \* CPAR: the peripheral register the channel is pointed at
    dmar,             \* USART CR3.DMAR
    dmat,             \* USART CR3.DMAT
    arm_writes        \* the register writes of the last arming call, in program order

vars == <<holders, handles, chan_id, ahb_dmaen, others_en, peer_tcif, teif,
          half_capacity, en, circ, dir, cndtr, reload, htif, tcif,
          readable_half, consumed_offset, mode, buf_len, moved, pc, spins,
          en_prev, op, ret, f_res, exposed, quiet_calls, halves_done, written,
          cpar, dmar, dmat, arm_writes>>

chan == <<en, circ, dir, cndtr, reload>>
flags == <<htif, tcif>>
block == <<handles, chan_id, ahb_dmaen, others_en>>
circbuf == <<half_capacity, readable_half, consumed_offset, quiet_calls,
             halves_done, written>>
arming == <<cpar, dmar, dmat, arm_writes>>
xfer == <<mode, buf_len, moved, pc, spins, en_prev>>

NoSlice == [half |-> "none", from |-> 0, to |-> 0]
NoClosure == [called |-> FALSE, ok |-> FALSE, l |-> 0]

\* A panic (an out-of-range slice index) ends the program; the engine runs on.
Panicked == ret = "Panic"

\* The methods of CircBuffer can be called: the buffer exists and the
\* program has not panicked.
CircLive == "circ" \in holders /\ ~Panicked

\* The methods of Transfer can be called: the transfer exists, the CPU is
\* not inside wait() and the program has not panicked.
TransferLive == "transfer" \in holders /\ pc = "run" /\ ~Panicked

----------------------------------------------------------------------------
(* Pure parts of the methods. *)

Opposite(half) == IF half = "First" THEN "Second" ELSE "First"

\* A slip: either flag alone is taken for an overrun.
IsOverrun_either(ht, tc) == ht \/ tc

\* readable_half(): both flags set means the consumer fell behind.
IsOverrun(ht, tc) == ht /\ tc

\* readable_half(): the completion flag of the half that was not read last.
OppositeDone(last_read_half, ht, tc) ==
    IF last_read_half = "First" THEN tc ELSE ht

\* readable_half(): what the call returns.
RhResult(half, ht, tc) ==
    IF IsOverrun(ht, tc) THEN "Overrun"
    ELSE IF OppositeDone(half, ht, tc) THEN Opposite(half)
    ELSE half

\* A slip: the flip is returned but never recorded.
RhHalf_unrecorded(half, ht, tc) == half

\* readable_half(): the half recorded when the call returns.
RhHalf(half, ht, tc) ==
    IF ~IsOverrun(ht, tc) /\ OppositeDone(half, ht, tc) THEN Opposite(half)
    ELSE half

\* A slip: the half-complete flag is acknowledged in the overrun path too.
RhHtif_always(half, ht, tc) == IF half = "Second" /\ ht THEN FALSE ELSE ht

\* readable_half(): the half-complete flag when the call returns (CHTIF is
\* written only in the Half::Second arm).
RhHtif(half, ht, tc) ==
    IF ~IsOverrun(ht, tc) /\ half = "Second" /\ ht THEN FALSE ELSE ht

\* A slip: the complete flag is never acknowledged.
RhTcif_kept(half, ht, tc) == tc

\* A slip: the complete flag is acknowledged in the overrun path too.
RhTcif_always(half, ht, tc) == IF half = "First" /\ tc THEN FALSE ELSE tc

\* readable_half(): the complete flag when the call returns (CTCIF is
\* written only in the Half::First arm).
RhTcif(half, ht, tc) ==
    IF ~IsOverrun(ht, tc) /\ half = "First" /\ tc THEN FALSE ELSE tc

\* partial_peek(): the half whose buffer is exposed.
PartialHalf(half) == IF half = "First" THEN "Second" ELSE "First"

\* A slip: the comparison with the capacity is not strict.
PartialPending_ge(pending, capacity) ==
    IF pending >= capacity THEN pending - capacity ELSE pending

\* partial_peek(): the count brought into one half.
PartialPending(pending, capacity) ==
    IF pending > capacity THEN pending - capacity ELSE pending

\* partial_peek(): the end bound of the exposed slice.
PartialEnd(pending, capacity) == capacity - PartialPending(pending, capacity)

\* A slip: the consumed count replaces the offset.
PartialOffset_assign(offset, l) == l

\* partial_peek(): the offset after the closure consumed l elements.
PartialOffset(offset, l) == offset + l

\* A slip: the offset is not reset.
PeekOffset_kept(offset) == offset

\* peek(): the offset left behind after the closure ran.
PeekOffset(offset) == 0

\* A slip: peek() picks the buffer element the way partial_peek() does.
PeekBuf_inverted(half_being_read) ==
    IF half_being_read = "First" THEN "Second" ELSE "First"

\* peek(): the buffer element chosen for the half that was resolved.
PeekBuf(half_being_read) == half_being_read

\* split(): the clock gate after `dmaXen().set_bit()`.
SplitClock(before) == TRUE

\* split(): a bit of a control register after `ccrX.reset()`.
SplitCcrBit(before) == FALSE

\* A slip: only the followed channel's control register is reset.
SplitOthersEn_kept(before) == before

\* split(): the enable bits of the other channels after the reset loop.
SplitOthersEn(before) == {}

\* split(): the handles returned for channel c, one field of Channels each.
SplitHandles(c) == 1

\* A slip: the handle is handed on and kept.
MoveHandle_copied(held, from, to) == held \cup {to}

\* A handle passed by value leaves its holder for the new one.
MoveHandle(held, from, to) == (held \ {from}) \cup {to}

\* A slip: answer_isr() acknowledges the complete flag only.
AnswerIsrBit_tc == "ctcif"

\* answer_isr(): the bit of the flag-clear register that is written.
AnswerIsrBit == "cgif"

\* A flag of the channel after a 1 is written to one bit of its group in the
\* flag-clear register: the global bit clears every flag of the channel.
IfcrWrite(bit, flag, value) ==
    IF bit = "cgif" \/ bit = "c" \o flag THEN FALSE ELSE value

\* A slip: terminate() only ever clears the enable bit.
TerminateEn_clear(enabled) == FALSE

\* terminate(): the enable bit after the call (set if clear, cleared if set).
TerminateEn(enabled) == ~enabled

\* restart(): whether data is returned.
RestartSome(pending, capacity) == pending # capacity

\* restart(): the length of the prefix returned.
RestartLen(pending, capacity) == capacity - pending

\* The statement of wait() that follows the statement at `at`.
WaitNext(at) ==
    IF at = "wait_poll" THEN "wait_ack"
    ELSE IF at = "wait_ack" THEN "wait_term"
    ELSE IF at = "wait_term" THEN "wait_fence"
    ELSE "run"

\* The count register takes a write only while the channel is disabled.
WriteCndtr(enabled, old, new) == IF enabled THEN old ELSE new

\* The element of the buffer the engine writes first after the enable bit is
\* set: it starts over at the address in the memory address register.
CursorAfterEnable == 0

\* Transfer::peek: the end of the prefix `&slice[..(capacity - pending)]`.
TransferPeekLen(pending, capacity) == capacity - pending

\* circ_read, read_exact, write_all: the register writes and the compiler
\* fence, in program order.
ArmWrites == <<"cmar", "cndtr", "cpar", "cr3", "fence", "ccr">>

\* The peripheral register whose address each arming function writes to CPAR.
CircReadPa == "rdr"
ReadExactPa == "rdr"
WriteAllPa == "rdr"

\* CircBuffer::new: the fields of a new CircBuffer.
NewReadableHalf == "Second"
NewConsumedOffset == 0

----------------------------------------------------------------------------
\* The block before split(): the clock gate and the control registers hold
\* whatever was left in them; no handle exists.
Init ==
    /\ holders = {}
    /\ handles = [c \in Channels |-> 0]
    /\ chan_id \in {RxChan, TxChan}
    /\ ahb_dmaen \in BOOLEAN
    /\ others_en \in SUBSET (Channels \ {chan_id})
    /\ peer_tcif = FALSE
    /\ teif = FALSE
    /\ half_capacity = 0
    /\ en \in BOOLEAN
    /\ circ \in BOOLEAN
    /\ dir \in BOOLEAN
    /\ cndtr = 0
    /\ reload = 0
    /\ htif = FALSE
    /\ tcif = FALSE
    /\ readable_half = "Second"
    /\ consumed_offset = 0
    /\ mode = "none"
    /\ buf_len = 0
    /\ moved = 0
    /\ pc = "run"
    /\ spins = 0
    /\ en_prev = FALSE
    /\ op = "init"
    /\ ret = "none"
    /\ f_res = NoClosure
    /\ exposed = NoSlice
    /\ quiet_calls = 0
    /\ halves_done = 0
    /\ written = {}
    /\ cpar = "none"
    /\ dmar = FALSE
    /\ dmat = FALSE
    /\ arm_writes = <<>>

\* DmaExt::split.  It consumes the block, so it runs once.
Split ==
    /\ holders = {}
    /\ \A c \in Channels : handles[c] = 0
    /\ ahb_dmaen' = SplitClock(ahb_dmaen)
    /\ en' = SplitCcrBit(en)
    /\ circ' = SplitCcrBit(circ)
    /\ dir' = SplitCcrBit(dir)
    /\ others_en' = SplitOthersEn(others_en)
    /\ handles' = [c \in Channels |-> SplitHandles(c)]
    /\ holders' = {"caller"}
    /\ op' = "split"
    /\ UNCHANGED <<chan_id, peer_tcif, teif, cndtr, reload, flags, circbuf,
                   xfer, arming, ret, f_res, exposed>>

\* Rx::circ_read with a buffer of two halves of h elements each.
CircRead ==
    /\ "caller" \in holders
    /\ chan_id = RxChan
    /\ pc = "run"
    /\ \E h \in 1..MaxHalfCap :
        /\ half_capacity' = h
        /\ cndtr' = WriteCndtr(en, cndtr, (h * 2) % U16)
        /\ reload' = WriteCndtr(en, reload, (h * 2) % U16)
    /\ circ' = TRUE
    /\ dir' = FALSE
    /\ en' = TRUE
    /\ holders' = MoveHandle(holders, "caller", "circ")
    /\ cpar' = CircReadPa
    /\ dmar' = TRUE
    /\ arm_writes' = ArmWrites
    /\ readable_half' = NewReadableHalf
    /\ consumed_offset' = NewConsumedOffset
    /\ op' = "circ_read"
    /\ ret' = "none"
    /\ f_res' = NoClosure
    /\ exposed' = NoSlice
    /\ quiet_calls' = 0
    /\ halves_done' = 0
    /\ written' = {}
    /\ UNCHANGED <<block, peer_tcif, teif, flags, xfer, dmat>>

\* The engine moves one element.  It sets the half-complete flag when half of
\* the programmed count has been moved and the complete flag when all of it
\* has; in circular mode it then reloads the count and goes on.
Engine ==
    /\ en
    /\ cndtr > 0
    /\ LET n == cndtr - 1
           half_now == (n = reload \div 2)
           full_now == (n = 0)
       IN  /\ htif' = (htif \/ half_now)
           /\ tcif' = (tcif \/ full_now)
           /\ cndtr' = IF full_now /\ circ THEN reload ELSE n
           /\ quiet_calls' = IF half_now \/ full_now THEN 0 ELSE quiet_calls
           /\ halves_done' =
                  IF "circ" \in holders /\ (half_now \/ full_now) /\ halves_done < 2
                  THEN halves_done + 1 ELSE halves_done
           /\ written' =
                  IF "circ" \in holders /\ half_now THEN written \cup {"First"}
                  ELSE IF "circ" \in holders /\ full_now THEN written \cup {"Second"}
                  ELSE written
    /\ moved' = IF "transfer" \in holders THEN moved + 1 ELSE moved
    /\ op' = "engine"
    /\ UNCHANGED <<holders, block, peer_tcif, teif, half_capacity, en, circ,
                   dir, reload, readable_half, consumed_offset, mode, buf_len,
                   pc, spins, en_prev, arming, ret, f_res, exposed>>

\* The engine of the USART's other channel completes a transfer of its own.
PeerEngine ==
    /\ holders # {}
    /\ ~peer_tcif
    /\ peer_tcif' = TRUE
    /\ op' = "peer_engine"
    /\ UNCHANGED <<holders, block, arming, teif, chan, flags, circbuf, xfer, ret,
                   f_res, exposed>>

\* The engine reports a transfer error on the followed channel.
TransferError ==
    /\ en
    /\ holders \in {{"circ"}, {"transfer"}}
    /\ ~teif
    /\ teif' = TRUE
    /\ op' = "transfer_error"
    /\ UNCHANGED <<holders, block, arming, peer_tcif, chan, flags, circbuf, xfer, ret,
                   f_res, exposed>>

\* CircBuffer::readable_half
ReadableHalf ==
    /\ CircLive
    /\ op' = "readable_half"
    /\ quiet_calls' = IF quiet_calls < 2 THEN quiet_calls + 1 ELSE 2
    /\ ret' = RhResult(readable_half, htif, tcif)
    /\ readable_half' = RhHalf(readable_half, htif, tcif)
    /\ htif' = RhHtif(readable_half, htif, tcif)
    /\ tcif' = RhTcif(readable_half, htif, tcif)
    /\ halves_done' = 0
    /\ UNCHANGED <<holders, block, peer_tcif, teif, half_capacity, chan,
                   consumed_offset, written, xfer, arming, f_res, exposed>>

\* CircBuffer::peek.  The closure returns a value of any type R, which may
\* itself stand for a failure (ok = FALSE); peek returns it in Ok either way.
Peek ==
    /\ CircLive
    /\ op' = "peek"
    /\ quiet_calls' = 0
    /\ readable_half' = RhHalf(readable_half, htif, tcif)
    /\ htif' = RhHtif(readable_half, htif, tcif)
    /\ tcif' = RhTcif(readable_half, htif, tcif)
    /\ LET half_being_read == RhResult(readable_half, htif, tcif)
       IN  IF half_being_read = "Overrun"
           THEN /\ ret' = "Overrun"
                /\ f_res' = NoClosure
                /\ exposed' = NoSlice
                /\ UNCHANGED consumed_offset
           ELSE IF consumed_offset > half_capacity
           THEN /\ ret' = "Panic"
                /\ f_res' = NoClosure
                /\ exposed' = NoSlice
                /\ UNCHANGED consumed_offset
           ELSE /\ ret' = "Ok"
                /\ \E ok \in BOOLEAN :
                        f_res' = [called |-> TRUE, ok |-> ok, l |-> 0]
                /\ exposed' = [half |-> PeekBuf(half_being_read),
                               from |-> consumed_offset, to |-> half_capacity]
                /\ consumed_offset' = PeekOffset(consumed_offset)
    /\ halves_done' = 0
    /\ UNCHANGED <<holders, block, peer_tcif, teif, half_capacity, chan,
                   written, xfer, arming>>

\* CircBuffer::partial_peek.  The closure reports failure, or success with
\* the number l of elements it consumed out of the slice it was given.
PartialPeek ==
    /\ CircLive
    /\ op' = "partial_peek"
    /\ quiet_calls' = 0
    /\ LET capacity == half_capacity
           pending == PartialPending(cndtr, capacity)
           end == PartialEnd(cndtr, capacity)
       IN  IF pending > capacity \/ consumed_offset > end
           THEN /\ ret' = "Panic"
                /\ f_res' = NoClosure
                /\ exposed' = NoSlice
                /\ UNCHANGED consumed_offset
           ELSE /\ exposed' = [half |-> PartialHalf(readable_half),
                               from |-> consumed_offset, to |-> end]
                /\ \/ \E l \in 0..(end - consumed_offset) :
                        /\ f_res' = [called |-> TRUE, ok |-> TRUE, l |-> l]
                        /\ consumed_offset' = PartialOffset(consumed_offset, l)
                        /\ ret' = "Ok"
                   \/ /\ f_res' = [called |-> TRUE, ok |-> FALSE, l |-> 0]
                      /\ ret' = "BufferError"
                      /\ UNCHANGED consumed_offset
    /\ UNCHANGED <<holders, block, peer_tcif, teif, half_capacity, chan, flags,
                   readable_half, halves_done, written, xfer, arming>>

\* CircBuffer::answer_isr.  Writing the channel's CGIF bit clears all of the
\* channel's status flags.
AnswerIsr ==
    /\ CircLive
    /\ op' = "answer_isr"
    /\ quiet_calls' = 0
    /\ htif' = IfcrWrite(AnswerIsrBit, "htif", htif)
    /\ tcif' = IfcrWrite(AnswerIsrBit, "tcif", tcif)
    /\ teif' = IfcrWrite(AnswerIsrBit, "teif", teif)
    /\ ret' = "none"
    /\ f_res' = NoClosure
    /\ exposed' = NoSlice
    /\ UNCHANGED <<holders, block, peer_tcif, half_capacity, chan,
                   readable_half, consumed_offset, halves_done, written, xfer,
                   arming>>

\* Rx::read_exact with a buffer of n elements.
ReadExact ==
    /\ "caller" \in holders
    /\ chan_id = RxChan
    /\ pc = "run"
    /\ \E n \in Lens :
        /\ buf_len' = n
        /\ cndtr' = WriteCndtr(en, cndtr, n % U16)
        /\ reload' = WriteCndtr(en, reload, n % U16)
    /\ circ' = FALSE
    /\ dir' = FALSE
    /\ en' = TRUE
    /\ holders' = MoveHandle(holders, "caller", "transfer")
    /\ cpar' = ReadExactPa
    /\ dmar' = TRUE
    /\ arm_writes' = ArmWrites
    /\ mode' = "W"
    /\ moved' = 0
    /\ spins' = 0
    /\ op' = "read_exact"
    /\ ret' = "none"
    /\ f_res' = NoClosure
    /\ exposed' = NoSlice
    /\ UNCHANGED <<block, peer_tcif, teif, flags, circbuf, pc, en_prev, dmat>>

\* Tx::write_all with a buffer of n elements.
WriteAll ==
    /\ "caller" \in holders
    /\ chan_id = TxChan
    /\ pc = "run"
    /\ \E n \in Lens :
        /\ buf_len' = n
        /\ cndtr' = WriteCndtr(en, cndtr, n % U16)
        /\ reload' = WriteCndtr(en, reload, n % U16)
    /\ circ' = FALSE
    /\ dir' = TRUE
    /\ en' = TRUE
    /\ holders' = MoveHandle(holders, "caller", "transfer")
    /\ cpar' = WriteAllPa
    /\ dmat' = TRUE
    /\ arm_writes' = ArmWrites
    /\ mode' = "R"
    /\ moved' = 0
    /\ spins' = 0
    /\ op' = "write_all"
    /\ ret' = "none"
    /\ f_res' = NoClosure
    /\ exposed' = NoSlice
    /\ UNCHANGED <<block, peer_tcif, teif, flags, circbuf, pc, en_prev, dmar>>

\* Transfer::peek (a Transfer<W, &'static mut BUFFER, ..>, as read_exact
\* returns): the prefix up to capacity - count; the subtraction or the slice
\* index panics when the count exceeds the capacity.
TransferPeek ==
    /\ TransferLive
    /\ mode = "W"
    /\ op' = "transfer_peek"
    /\ LET pending == cndtr
           capacity == buf_len
       IN  IF pending > capacity
           THEN ret' = "Panic" /\ exposed' = NoSlice
           ELSE /\ ret' = "Slice"
                /\ exposed' = [half |-> "buffer", from |-> 0,
                               to |-> TransferPeekLen(pending, capacity)]
    /\ UNCHANGED <<holders, block, arming, peer_tcif, teif, chan, flags,
                   circbuf, xfer, f_res>>

\* Transfer::is_done
IsDone ==
    /\ TransferLive
    /\ op' = "is_done"
    /\ ret' = IF tcif THEN "true" ELSE "false"
    /\ UNCHANGED <<holders, block, arming, peer_tcif, teif, chan, flags, circbuf,
                   xfer, f_res, exposed>>

\* Transfer::answer_isr
TransferAnswerIsr ==
    /\ TransferLive
    /\ op' = "answer_isr"
    /\ htif' = IfcrWrite(AnswerIsrBit, "htif", htif)
    /\ tcif' = IfcrWrite(AnswerIsrBit, "tcif", tcif)
    /\ teif' = IfcrWrite(AnswerIsrBit, "teif", teif)
    /\ ret' = "none"
    /\ UNCHANGED <<holders, block, arming, peer_tcif, chan, circbuf, xfer, f_res,
                   exposed>>

\* Transfer::terminate.  The enable bit reads back as written, so neither
\* readback loop iterates.
Terminate ==
    /\ TransferLive
    /\ op' = "terminate"
    /\ en_prev' = en
    /\ en' = TerminateEn(en)
    /\ ret' = "none"
    /\ UNCHANGED <<holders, block, arming, peer_tcif, teif, circ, dir, cndtr, reload,
                   flags, circbuf, mode, buf_len, moved, pc, spins, f_res,
                   exposed>>

\* Transfer::wait is called: the CPU enters the polling loop.
WaitCall ==
    /\ TransferLive
    /\ op' = "wait_call"
    /\ pc' = "wait_poll"
    /\ spins' = 0
    /\ ret' = "none"
    /\ UNCHANGED <<holders, block, arming, peer_tcif, teif, chan, flags, circbuf,
                   mode, buf_len, moved, en_prev, f_res, exposed>>

\* wait(): one evaluation of `while !self.is_done() {}`.  An iteration that
\* finds the flag clear is counted in spins, which starts over at 1 after
\* MaxSpins so that a loop that never ends stays a sequence of steps.
WaitPoll ==
    /\ pc = "wait_poll"
    /\ op' = "wait_poll"
    /\ IF tcif
       THEN pc' = WaitNext(pc) /\ UNCHANGED spins
       ELSE spins' = (IF spins < MaxSpins THEN spins + 1 ELSE 1)
            /\ UNCHANGED pc
    /\ UNCHANGED <<holders, block, arming, peer_tcif, teif, chan, flags, circbuf,
                   mode, buf_len, moved, en_prev, ret, f_res, exposed>>

\* wait(): `self.answer_isr()`.
WaitAck ==
    /\ pc = "wait_ack"
    /\ op' = "wait_ack"
    /\ htif' = IfcrWrite(AnswerIsrBit, "htif", htif)
    /\ tcif' = IfcrWrite(AnswerIsrBit, "tcif", tcif)
    /\ teif' = IfcrWrite(AnswerIsrBit, "teif", teif)
    /\ pc' = WaitNext(pc)
    /\ UNCHANGED <<holders, block, arming, peer_tcif, chan, circbuf, mode, buf_len,
                   moved, spins, en_prev, ret, f_res, exposed>>

\* wait(): `self.terminate()`.
WaitTerminate ==
    /\ pc = "wait_term"
    /\ op' = "wait_term"
    /\ en_prev' = en
    /\ en' = TerminateEn(en)
    /\ pc' = WaitNext(pc)
    /\ UNCHANGED <<holders, block, arming, peer_tcif, teif, circ, dir, cndtr, reload,
                   flags, circbuf, mode, buf_len, moved, spins, ret, f_res,
                   exposed>>

\* wait(): the compiler fence, then the buffer, the channel and the payload
\* are returned to the caller.
WaitReturn ==
    /\ pc = "wait_fence"
    /\ op' = "wait"
    /\ pc' = WaitNext(pc)
    /\ holders' = MoveHandle(holders, "transfer", "caller")
    /\ mode' = "none"
    /\ buf_len' = 0
    /\ moved' = 0
    /\ ret' = "released"
    /\ UNCHANGED <<block, arming, peer_tcif, teif, chan, flags, circbuf, spins,
                   en_prev, f_res, exposed>>

\* Transfer::restart (a Transfer<W, &'static mut BUFFER, ..>, as read_exact
\* returns): terminate(), read the count, write the count, set the enable
\* bit, return the prefix.
Restart ==
    /\ TransferLive
    /\ mode = "W"
    /\ op' = "restart"
    /\ en_prev' = en
    /\ LET pending == cndtr
           capacity == buf_len
       IN  /\ cndtr' = WriteCndtr(TerminateEn(en), cndtr, capacity % U16)
           /\ reload' = WriteCndtr(TerminateEn(en), reload, capacity % U16)
           /\ IF ~RestartSome(pending, capacity)
              THEN ret' = "None" /\ exposed' = NoSlice
              ELSE IF pending > capacity
              THEN ret' = "Panic" /\ exposed' = NoSlice
              ELSE /\ ret' = "Some"
                   /\ exposed' = [half |-> "buffer", from |-> 0,
                                  to |-> RestartLen(pending, capacity)]
    /\ en' = TRUE
    /\ moved' = 0
    /\ UNCHANGED <<holders, block, arming, peer_tcif, teif, circ, dir, flags, circbuf,
                   mode, buf_len, pc, spins, f_res>>

Next ==
    \/ Split
    \/ CircRead
    \/ Engine
    \/ PeerEngine
    \/ TransferError
    \/ ReadableHalf
    \/ Peek
    \/ PartialPeek
    \/ AnswerIsr
    \/ ReadExact
    \/ WriteAll
    \/ TransferPeek
    \/ IsDone
    \/ TransferAnswerIsr
    \/ Terminate
    \/ WaitCall
    \/ WaitPoll
    \/ WaitAck
    \/ WaitTerminate
    \/ WaitReturn
    \/ Restart

Spec == Init /\ [][Next]_vars

\* The engine keeps moving elements while it can, and the CPU keeps executing
\* wait() once it is inside it.
WaitStep == WaitPoll \/ WaitAck \/ WaitTerminate \/ WaitReturn

FairSpec == Spec /\ WF_vars(Engine) /\ WF_vars(WaitStep)

----------------------------------------------------------------------------
(* The engine's write cursor, from the count register: the engine writes   *)
(* element (reload - cndtr) of the two halves laid end to end.             *)

CursorHalf == IF cndtr > half_capacity THEN "First" ELSE "Second"

WrittenInCursorHalf == (2 * half_capacity - cndtr) % half_capacity

----------------------------------------------------------------------------
(* Claims about CircBuffer::readable_half. *)

\* C1: a readable_half() call, made directly or by peek(), returns Overrun
\* if and only if both the half-complete and the complete flag are set in
\* the status register it reads.
C1_OverrunIffBothFlags ==
    [][op' \in {"readable_half", "peek"} =>
        ((ret' = "Overrun") <=> (htif /\ tcif))]_vars

C1_Witness ==
    /\ op = "readable_half"
    /\ ret = "Overrun"
    /\ readable_half = "First"
    /\ htif /\ tcif

\* C2: a readable_half() call that does not return Overrun clears exactly the
\* completion flag of the half opposite to the recorded one when that flag is
\* set, records that half and returns it; otherwise it returns the recorded
\* half and changes neither the recorded half nor a flag.
C2_FlipOrNoProgress ==
    [][(op' = "readable_half" /\ ret' # "Overrun") =>
        IF readable_half = "First" /\ tcif
        THEN /\ ~tcif' /\ htif' = htif
             /\ readable_half' = "Second" /\ ret' = "Second"
        ELSE IF readable_half = "Second" /\ htif
        THEN /\ ~htif' /\ tcif' = tcif
             /\ readable_half' = "First" /\ ret' = "First"
        ELSE /\ ret' = readable_half
             /\ readable_half' = readable_half
             /\ htif' = htif /\ tcif' = tcif]_vars

C2_Witness ==
    /\ op = "readable_half"
    /\ ret = "First"
    /\ readable_half = "First"
    /\ quiet_calls = 1
    /\ cndtr = half_capacity
    /\ ~htif /\ ~tcif

\* C3: a readable_half() call that returns Overrun clears no flag and leaves
\* the recorded half and consumed_offset as they were.
C3_OverrunChangesNothing ==
    [][(op' = "readable_half" /\ ret' = "Overrun") =>
        /\ htif' = htif /\ tcif' = tcif
        /\ readable_half' = readable_half
        /\ consumed_offset' = consumed_offset]_vars

C3_Witness ==
    /\ op = "readable_half"
    /\ ret = "Overrun"
    /\ htif /\ tcif
    /\ consumed_offset > 0

\* C4: when the engine has set no flag and no other method has run since a
\* readable_half() call, the next readable_half() call returns what that call
\* returned and changes neither the recorded half, consumed_offset nor a flag.
C4_Idempotent ==
    [][(quiet_calls >= 1 /\ op' = "readable_half") =>
        /\ ret' = ret
        /\ readable_half' = readable_half
        /\ consumed_offset' = consumed_offset
        /\ htif' = htif /\ tcif' = tcif]_vars

C4_Witness ==
    /\ op = "readable_half"
    /\ quiet_calls = 2
    /\ ret = "First"
    /\ readable_half = "First"

----------------------------------------------------------------------------
(* Claims about consumed_offset. *)

\* C5 as stated: after any peek() call, whatever it returned,
\* consumed_offset is 0.
C5_PeekAlwaysResets == op = "peek" => consumed_offset = 0

\* C5 as amended: a peek() call that does not return Overrun leaves
\* consumed_offset at 0; a peek() call that returns Overrun leaves
\* consumed_offset as it was.
C5_PeekResetsUnlessOverrun ==
    [][op' = "peek" =>
        IF ret' = "Overrun"
        THEN consumed_offset' = consumed_offset
        ELSE ret' = "Ok" /\ consumed_offset' = 0]_vars

C5_Witness ==
    /\ op = "peek"
    /\ ret = "Ok"
    /\ exposed.from > 0
    /\ consumed_offset = 0

\* C6: over the life of a CircBuffer consumed_offset never decreases while the
\* recorded readable half stays the same, every flip of the recorded half
\* resets it to 0, and it is reset at no other step.
C6_OffsetFollowsHalf ==
    [][("circ" \in holders /\ "circ" \in holders') =>
        /\ (readable_half' = readable_half =>
                consumed_offset' >= consumed_offset)
        /\ (readable_half' # readable_half => consumed_offset' = 0)
        /\ ((consumed_offset > 0 /\ consumed_offset' = 0) =>
                readable_half' # readable_half)]_vars

----------------------------------------------------------------------------
(* Claims about CircBuffer::partial_peek. *)

\* C7: in every state in which partial_peek() can be called, the slice
\* bounds it computes satisfy 0 <= consumed_offset <= end <= half_capacity,
\* and no call has failed on an out-of-range slice.
C7_SliceWellFormed ==
    "circ" \in holders =>
        /\ ~Panicked
        /\ 0 <= consumed_offset
        /\ consumed_offset <= PartialEnd(cndtr, half_capacity)
        /\ PartialEnd(cndtr, half_capacity) <= half_capacity

\* C8 as stated: the end bound of the slice partial_peek() exposes equals
\* half_capacity - (remaining() mod half_capacity).
C8_EndIsModulo ==
    (op = "partial_peek" /\ exposed.half # "none") =>
        exposed.to = half_capacity - (cndtr % half_capacity)

\* The end bound as the code computes it, written out per value of the count.
C8_End(remaining, capacity) ==
    IF remaining = capacity \/ remaining = 2 * capacity
    THEN 0
    ELSE capacity - (remaining % capacity)

\* C8 as amended: the end bound is half_capacity - p, where p is
\* remaining() - half_capacity when remaining() exceeds half_capacity and
\* remaining() otherwise; for remaining() in 0..2*half_capacity that is
\* half_capacity - (remaining() mod half_capacity) except at half_capacity
\* and at 2*half_capacity, where the end bound is 0.  With half_capacity 10,
\* remaining 11 and consumed_offset 4 the elements [4, 9) are exposed.
C8_EndIsCountInHalf ==
    /\ (op = "partial_peek" /\ exposed.half # "none") =>
            exposed.to = C8_End(cndtr, half_capacity)
    /\ \A capacity \in 1..MaxHalfCap : \A remaining \in 0..(2 * capacity) :
            PartialEnd(remaining, capacity) = C8_End(remaining, capacity)
    /\ PartialEnd(11, 10) = 9

C8_Witness ==
    /\ op = "partial_peek"
    /\ exposed.half # "none"
    /\ cndtr = half_capacity
    /\ half_capacity = MaxHalfCap
    /\ exposed.to = 0

\* C9: the half whose slice partial_peek() exposes is the half the engine's
\* write cursor is in, and the exposed end bound is the number of elements
\* the engine has written into that half in the current lap.
C9_ExposesHalfBeingWritten ==
    (op = "partial_peek" /\ exposed.half # "none") =>
        /\ exposed.half = CursorHalf
        /\ exposed.to = WrittenInCursorHalf

\* C10: when the closure reports success with a consumed count l,
\* partial_peek() adds exactly l to consumed_offset; when it reports failure
\* the call returns BufferError and leaves consumed_offset as it was; either
\* way the recorded half and the flags are unchanged.
C10_PartialPeekOutcome ==
    [][(op' = "partial_peek" /\ f_res'.called) =>
        /\ IF f_res'.ok
           THEN ret' = "Ok" /\ consumed_offset' = consumed_offset + f_res'.l
           ELSE ret' = "BufferError" /\ consumed_offset' = consumed_offset
        /\ readable_half' = readable_half
        /\ htif' = htif /\ tcif' = tcif]_vars

C10_Witness ==
    /\ op = "partial_peek"
    /\ f_res.called /\ f_res.ok
    /\ f_res.l = 1
    /\ consumed_offset = 2

----------------------------------------------------------------------------
(* Claims about CircBuffer::peek. *)

\* C11 as stated: when the closure reports failure, peek() returns
\* BufferError.
C11_PeekFailureIsBufferError ==
    (op = "peek" /\ f_res.called /\ ~f_res.ok) => ret = "BufferError"

\* C11 as amended: peek() hands the closure the tail [consumed_offset..] of
\* the half resolved by readable_half() and returns the closure's result
\* wrapped in success, whatever that result is (the closure has no way to
\* make peek() fail, and peek() never returns BufferError); when
\* readable_half() yields Overrun the closure is not called and Overrun is
\* returned.
C11_PeekOutcome ==
    [][op' = "peek" =>
        IF htif /\ tcif
        THEN ret' = "Overrun" /\ ~f_res'.called /\ exposed' = NoSlice
        ELSE /\ ret' = "Ok"
             /\ f_res'.called
             /\ exposed'.half =
                    (IF readable_half = "First" /\ tcif THEN "Second"
                     ELSE IF readable_half = "Second" /\ htif THEN "First"
                     ELSE readable_half)
             /\ exposed'.half = readable_half'
             /\ exposed'.from = consumed_offset
             /\ exposed'.to = half_capacity]_vars

C11_Witness ==
    /\ op = "peek"
    /\ ret = "Ok"
    /\ f_res.called /\ ~f_res.ok
    /\ exposed.half = "First"
    /\ exposed.from > 0

----------------------------------------------------------------------------
(* Claims about Transfer. *)

\* C12: restart() returns no data exactly when the count it reads equals the
\* buffer's capacity, and otherwise returns exactly the prefix
\* [0, capacity - count), which is what the engine wrote since the transfer
\* was last armed.
C12_RestartReturnsWritten ==
    [][op' = "restart" =>
        /\ (ret' = "None") <=> (cndtr = buf_len)
        /\ (ret' # "None") =>
              /\ ret' = "Some"
              /\ exposed'.from = 0
              /\ exposed'.to = buf_len - cndtr
              /\ exposed'.to = moved]_vars

\* C13: after restart() returns, the count register holds the buffer's
\* capacity and the enable bit is set.
C13_RestartRearms ==
    op = "restart" => (cndtr = buf_len /\ en)

\* C14: when wait() returns, the channel it hands back is disabled.
C14_WaitLeavesDisabled ==
    op = "wait" => ~en

\* C15: wait() releases the buffer, the channel and the payload only after it
\* has, in this order, seen the completion flag set, cleared the channel's
\* flags, changed the enable bit, and passed the barrier; and when it returns
\* the completion flag is clear.
C15_WaitOrder ==
    [][/\ (pc # "wait_ack" /\ pc' = "wait_ack") => (pc = "wait_poll" /\ tcif)
       /\ (pc # "wait_term" /\ pc' = "wait_term") =>
              (pc = "wait_ack" /\ ~htif' /\ ~tcif' /\ ~teif')
       /\ (pc # "wait_fence" /\ pc' = "wait_fence") =>
              (pc = "wait_term" /\ en' # en)
       /\ ("transfer" \in holders /\ "transfer" \notin holders') =>
              (pc = "wait_fence" /\ op' = "wait" /\ holders' = {"caller"})
       /\ op' = "wait" => ~tcif']_vars

\* C16: under weak fairness of the engine, a wait() call eventually returns,
\* and a poll that finds the completion flag set leaves the loop without a
\* further iteration.
C16_WaitReturns ==
    /\ (pc = "wait_poll") ~> (pc = "run")
    /\ [][(pc = "wait_poll" /\ tcif /\ op' = "wait_poll") =>
            (pc' = "wait_ack" /\ spins' = spins)]_vars

\* C17: terminate() sets the enable bit to the opposite of what it was, and
\* changes no other control bit, no count and no flag; a second terminate()
\* right after the first restores the enable bit the first one found.
C17_TerminateToggles ==
    [][op' = "terminate" =>
        /\ en' = ~en
        /\ UNCHANGED <<circ, dir, cndtr, reload, htif, tcif, teif, peer_tcif>>
        /\ (op = "terminate" => en' = en_prev)]_vars

C17_Witness ==
    /\ op = "terminate"
    /\ en /\ ~en_prev
    /\ cndtr > 0
    /\ ~tcif

\* C18: after split() the block's clock gate is enabled, the control register
\* of every channel is at its reset value (enable bit clear), whatever the
\* registers held before, and one handle per channel has been returned.
C18_SplitResets ==
    op = "split" =>
        /\ ahb_dmaen
        /\ ~en /\ ~circ /\ ~dir
        /\ others_en = {}
        /\ \A c \in Channels : handles[c] = 1
        /\ holders = {"caller"}

C18_Witness ==
    /\ op = "split"
    /\ ahb_dmaen
    /\ ~en
    /\ handles[NumChannels] = 1

\* C19: the followed channel has at most one holder at any time (the caller,
\* one CircBuffer or one Transfer), and once it is moved into a wrapper the
\* caller gets it back only from wait().
C19_OneHolder ==
    /\ [](\A a \in holders : \A b \in holders : a = b)
    /\ []((\E c \in Channels : handles[c] > 0) => holders # {})
    /\ [][("caller" \notin holders /\ "caller" \in holders') =>
            op' \in {"split", "wait"}]_vars

C19_Witness ==
    /\ op = "wait"
    /\ holders = {"caller"}
    /\ ret = "released"

\* C20: answer_isr(), of CircBuffer and of Transfer, clears the half-complete,
\* the complete and the error flag of its own channel, no flag of another
\* channel, and changes neither the recorded half, consumed_offset, the
\* enable bit nor the count.
C20_AnswerIsrFrame ==
    [][op' = "answer_isr" =>
        /\ ~htif' /\ ~tcif' /\ ~teif'
        /\ peer_tcif' = peer_tcif
        /\ UNCHANGED <<readable_half, consumed_offset, en, cndtr>>]_vars

C20_Witness ==
    /\ op = "answer_isr"
    /\ "circ" \in holders
    /\ peer_tcif
    /\ ~htif /\ ~tcif /\ ~teif
    /\ consumed_offset > 0

----------------------------------------------------------------------------
(* Claims about Transfer::peek, the arming functions and the count register. *)

\* C21: Transfer.peek() on a transfer created by read_exact exposes exactly
\* the elements [0, capacity - count), with 0 <= capacity - count <= capacity
\* in every state it can be called in, and it changes no register, no flag
\* and no state of the transfer.
C21_TransferPeekPrefix ==
    [][op' = "transfer_peek" =>
        /\ ret' = "Slice"
        /\ exposed' = [half |-> "buffer", from |-> 0, to |-> buf_len - cndtr]
        /\ 0 <= buf_len - cndtr
        /\ buf_len - cndtr <= buf_len
        /\ UNCHANGED <<chan, flags, teif, peer_tcif, xfer, holders, arming>>]_vars

\* The place of write w in the sequence ws of register writes (0: not made).
C22_Pos(ws, w) ==
    IF \E i \in 1..Len(ws) : ws[i] = w
    THEN CHOOSE i \in 1..Len(ws) : ws[i] = w
    ELSE 0

\* The order part of C22: the memory address, the count, the peripheral
\* address and the peripheral's DMA request are written before the fence, and
\* the control register, which carries the enable bit, after it and last.
C22_Order(ws) ==
    /\ \A w \in {"cmar", "cndtr", "cpar", "cr3"} :
           C22_Pos(ws, w) > 0 /\ C22_Pos(ws, w) < C22_Pos(ws, "fence")
    /\ C22_Pos(ws, "fence") < C22_Pos(ws, "ccr")
    /\ C22_Pos(ws, "ccr") = Len(ws)

\* C22: circ_read, read_exact and write_all program the memory address, the
\* count and the peripheral address and enable the peripheral's DMA request
\* before the fence, and set the enable bit after it as their last register
\* write; circ_read programs a count of twice the half length with circular
\* mode set, read_exact and write_all the buffer length with circular mode
\* clear; circ_read returns a CircBuffer that records Second and offset 0.
C22_ArmingProgramsChannel ==
    [][op' \in {"circ_read", "read_exact", "write_all"} =>
        /\ C22_Order(arm_writes')
        /\ en'
        /\ op' = "circ_read" =>
              /\ cndtr' = 2 * half_capacity'
              /\ circ'
              /\ readable_half' = "Second"
              /\ consumed_offset' = 0
        /\ op' # "circ_read" => (cndtr' = buf_len' /\ ~circ')]_vars

\* C23: every write of the count register made by circ_read, read_exact,
\* write_all and restart happens while the channel's enable bit is clear (in
\* restart, the bit as its terminate() call left it), whether the handle came
\* from split() or was handed back by wait().
C23_CountWrittenWhileDisabled ==
    [][/\ op' \in {"circ_read", "read_exact", "write_all"} => ~en
       /\ op' = "restart" => ~TerminateEn(en)]_vars

----------------------------------------------------------------------------
(* Claims about the circular capture as a whole. *)

\* C24: if the engine completed two or more halves since the last
\* readable_half() or peek() call (since circ_read, for the first call), the
\* next readable_half() or peek() call returns Overrun, whatever partial_peek()
\* and answer_isr() calls were made in between.
C24_NoHalfLostSilently ==
    [][(op' \in {"readable_half", "peek"} /\ halves_done >= 2) =>
            ret' = "Overrun"]_vars

\* C25: a half that readable_half() or peek() reports as readable has been
\* completely written by the engine since circ_read, and the engine's write
\* cursor is outside it when the call returns.
C25_ReportedHalfWasWritten ==
    [][(op' \in {"readable_half", "peek"} /\ ret' \in {"First", "Second", "Ok"}) =>
            /\ readable_half' \in written'
            /\ CursorHalf' # readable_half']_vars

\* C26: while both flags are set and answer_isr() is not called, both flags
\* stay set whatever the engine and the other methods do, so that once
\* readable_half() has returned Overrun every later readable_half() and peek()
\* call returns Overrun until answer_isr() is called.
C26_OverrunSticky ==
    [][("circ" \in holders /\ htif /\ tcif /\ op' # "answer_isr") =>
            /\ htif' /\ tcif'
            /\ op' \in {"readable_half", "peek"} => ret' = "Overrun"]_vars

C26_Witness ==
    /\ op = "readable_half"
    /\ ret = "Overrun"
    /\ quiet_calls = 2
    /\ htif /\ tcif

----------------------------------------------------------------------------
(* Claims about restart(), is_done(), the direction and the count's width. *)

\* C27: at the moment restart() hands the prefix [0, capacity - count) to the
\* caller, the engine is not enabled to write an element of that prefix.
C27_RestartPrefixNotWritten ==
    (op = "restart" /\ ret = "Some") =>
        ~(en /\ cndtr > 0 /\ CursorAfterEnable < exposed.to)

\* C28: is_done() returns true only when the transfer as it is armed now has
\* moved all of its elements (count 0), and wait() leaves its polling loop
\* only then, also for a transfer re-armed by restart().
C28_DoneMeansAllMoved ==
    [][/\ (op' = "is_done" /\ ret' = "true") => cndtr = 0
       /\ (pc = "wait_poll" /\ pc' = "wait_ack") => cndtr = 0]_vars

\* C29: write_all arms a memory-to-peripheral transfer (direction bit set,
\* transmit DMA request enabled) whose peripheral address is the transmit data
\* register; circ_read and read_exact arm peripheral-to-memory transfers
\* (direction bit clear, receive DMA request enabled) whose peripheral address
\* is the receive data register.
C29_DirectionAndPeripheral ==
    /\ op = "write_all" => (dir /\ dmat /\ cpar = "tdr")
    /\ op \in {"circ_read", "read_exact"} => (~dir /\ dmar /\ cpar = "rdr")

\* C30: the count that circ_read, read_exact, write_all and restart program
\* into a disabled channel equals the number of elements to move, for every
\* buffer length.
C30_CountIsLength ==
    [][/\ (op' \in {"read_exact", "write_all"} /\ ~en) => cndtr' = buf_len'
       /\ (op' = "circ_read" /\ ~en) => cndtr' = 2 * half_capacity'
       /\ (op' = "restart" /\ en) => cndtr' = buf_len]_vars

====
